---- MODULE Spec2Model ----
(***************************************************************************)
(* Keyboard input decoding of the CLI: KeyboardProvider                    *)
(* (src/cli/src/ui/utils/welcomeMessage.ts, lines 116-553).                *)
(*                                                                         *)
(* Strings are sequences of characters, a character being a one-token      *)
(* TLA+ string: "ESC" is \x1b, "CR" is \r, "LF" is \n, "ETX" is \x03.       *)
(* The component's refs, the atoms it reads and writes, the values the     *)
(* mounted effect closed over, the pending Node timers and the terminal    *)
(* are the state; handleKeypress, handleRawData, the two timer callbacks,  *)
(* the effect re-run, the end of protocol detection and unmount are the    *)
(* actions.                                                                *)
(***************************************************************************)
EXTENDS Integers, Sequences, FiniteSets, TLC

(***************************************************************************)
(* Bounds of the model.                                                    *)
(***************************************************************************)
\* number of input units (keypresses or raw chunks) fed in one behaviour
MaxUnits == 4

(***************************************************************************)
(* Characters and the fixed sequences of constants/keyboard.               *)
(***************************************************************************)
ESC == "ESC"
CR == "CR"
LF == "LF"
ETX == "ETX"
QUOTE == "'"

BACKSLASH == <<"\\">>

PASTE_MODE_PREFIX == <<ESC, "[", "2", "0", "0", "~">>

PASTE_MODE_SUFFIX == <<ESC, "[", "2", "0", "1", "~">>

FOCUS_IN == <<ESC, "[", "I">>

FOCUS_OUT == <<ESC, "[", "O">>

\* model value of the imported constant: small enough for two buffered
\* units to exceed it
MAX_KITTY_SEQUENCE_LENGTH == 5

Digits == {"0", "1", "2", "3"}

Letters == {"a", "u"}

(***************************************************************************)
(* String functions of JavaScript, on sequences.                           *)
(***************************************************************************)
\* s.slice(n) with a 0-based n
SliceFrom(s, n) == SubSeq(s, n + 1, Len(s))

\* s.slice(a, b) with 0-based a, b
Slice(s, a, b) == SubSeq(s, a + 1, b)

\* s.startsWith(p)
StartsWith(s, p) == Len(s) >= Len(p) /\ SubSeq(s, 1, Len(p)) = p

\* s.indexOf(p, from): 0-based position of the first occurrence of p at or
\* after from, -1 when there is none
IndexOf(s, p, from) ==
    LET hits == {i \in from..(Len(s) - Len(p)) : SubSeq(s, i + 1, i + Len(p)) = p}
    IN IF hits = {} THEN -1 ELSE CHOOSE i \in hits : \A j \in hits : i <= j

\* s.replace(/\r\n/g, "\n")
RECURSIVE ReplaceCRLF(_)
ReplaceCRLF(s) ==
    IF s = <<>> THEN <<>>
    ELSE IF Len(s) >= 2 /\ s[1] = CR /\ s[2] = LF
         THEN <<LF>> \o ReplaceCRLF(SliceFrom(s, 2))
         ELSE <<s[1]>> \o ReplaceCRLF(SliceFrom(s, 1))

\* s.replace(/\r/g, "\n")
ReplaceCR(s) == [i \in 1..Len(s) |-> IF s[i] = CR THEN LF ELSE s[i]]

(***************************************************************************)
(* Keys (types/keyboard Key) and the key constructors of keyParsing.       *)
(***************************************************************************)
Key(name, sequence, ctrl, meta, shift, paste) ==
    [name |-> name, sequence |-> sequence, ctrl |-> ctrl, meta |-> meta,
     shift |-> shift, paste |-> paste]

createPasteKey(text) == Key("", text, FALSE, FALSE, FALSE, TRUE)

createSpecialKey(name, sequence) == Key(name, sequence, FALSE, FALSE, FALSE, FALSE)

(***************************************************************************)
(* Sequence Parser (keyParsing): stateless classification.                 *)
(***************************************************************************)
isPasteModeBoundary(seq) ==
    [isStart |-> StartsWith(seq, PASTE_MODE_PREFIX),
     isEnd |-> StartsWith(seq, PASTE_MODE_SUFFIX)]

isFocusEvent(seq) == [isFocusIn |-> seq = FOCUS_IN, isFocusOut |-> seq = FOCUS_OUT]

isDragStart(seq) == StartsWith(seq, <<QUOTE>>)

\* the letter of an ESC-prefixed single character, "" (null) otherwise
mapAltKeyCharacter(seq) ==
    IF Len(seq) = 2 /\ seq[1] = ESC /\ seq[2] \in Letters THEN seq[2] ELSE ""

\* number of leading digits of s
RECURSIVE DigitRun(_)
DigitRun(s) == IF s # <<>> /\ s[1] \in Digits THEN 1 + DigitRun(SliceFrom(s, 1)) ELSE 0

NoKey == Key("", <<>>, FALSE, FALSE, FALSE, FALSE)

\* CSI code [; modifiers] u at the front of buffer; key is null (ok FALSE)
\* for an incomplete and for an unrecognized buffer alike
parseKittySequence(buffer) ==
    LET fail == [ok |-> FALSE, key |-> NoKey, consumedLength |-> 0]
        n1 == DigitRun(SliceFrom(buffer, 2))
        afterCode == SliceFrom(buffer, 2 + n1)
        hasMods == afterCode # <<>> /\ afterCode[1] = ";"
        n2 == IF hasMods THEN DigitRun(SliceFrom(afterCode, 1)) ELSE 0
        rest == IF hasMods THEN SliceFrom(afterCode, 1 + n2) ELSE afterCode
        len == 2 + n1 + (IF hasMods THEN 1 + n2 ELSE 0) + 1
        code == Slice(buffer, 2, 2 + n1)
        mods == IF hasMods THEN Slice(afterCode, 1, 1 + n2) ELSE <<>>
    IN IF ~StartsWith(buffer, <<ESC, "[">>) THEN fail
       ELSE IF n1 = 0 \/ (hasMods /\ n2 = 0) THEN fail
       ELSE IF rest = <<>> \/ rest[1] # "u" THEN fail
       ELSE [ok |-> TRUE,
             key |-> Key(IF code = <<"1", "3">> THEN "return" ELSE "key",
                         Slice(buffer, 0, len), FALSE, FALSE, mods = <<"2">>, FALSE),
             consumedLength |-> len]

\* parseReadlineKey applied to readline's keypress record for a raw sequence
parseReadlineKey(seq) ==
    CASE seq = <<CR>> -> Key("return", seq, FALSE, FALSE, FALSE, FALSE)
      [] seq = <<LF>> -> Key("enter", seq, FALSE, FALSE, FALSE, FALSE)
      [] seq = <<ETX>> -> Key("c", seq, TRUE, FALSE, FALSE, FALSE)
      [] Len(seq) = 1 /\ seq[1] \in Letters -> Key(seq[1], seq, FALSE, FALSE, FALSE, FALSE)
      [] OTHER -> Key("", seq, FALSE, FALSE, FALSE, FALSE)

(***************************************************************************)
(* State.                                                                  *)
(***************************************************************************)
VARIABLES
    usePassthrough,           \* raw-byte interception mode of the session
    kittySupported,           \* what the terminal answers to the protocol query
    session,                  \* names the raw units the behaviour draws its input from
    isPasteRef, pasteBufferRef, isDraggingRef,
    dragTimerRef, backslashTimerRef,      \* timer id, 0 for null
    waitingForEnterRef,
    pasteBufferAtom, dragBufferAtom, kittySequenceBufferAtom,
    kittyProtocolEnabledAtom,
    effect,                   \* what the mounted effect closed over
    mounted,                  \* the provider is mounted (session running)
    detecting,                \* protocol detections started and not yet answered
    rawMode, bracketedPaste, kittyMode,   \* the terminal
    timers,                   \* pending setTimeout callbacks, oldest first
    timerSeq,                 \* timers created so far
    events,                   \* broadcastKey calls, in order
    hist,                     \* input units received, in order (history)
    ctx,                      \* the decoder as each unit found it (history)
    fired,                    \* timer callbacks run, in order (history)
    waitingSrc                \* number of the backslash unit being held (history)

\* the approval decision service: one request and the decision taken on it
VARIABLES
    message,                  \* the chat message that asks for approval
    config,                   \* the auto-approval configuration
    isCIMode,                 \* CI mode is active
    decision                  \* what getApprovalDecision returned, once called

approval == <<message, config, isCIMode, decision>>

\* message completion: the message list of the UI and its split
VARIABLES
    messages,                 \* the unified messages, in chronological order
    split                     \* what splitMessages returned, once called

completion == <<messages, split>>

\* the parse loop over the accumulated buffer, one iteration at a time
VARIABLES
    parseLoop                 \* the run of the while loop of lines 369-391

\* the state of the keyboard provider
keyboard == <<usePassthrough, kittySupported, session, isPasteRef, pasteBufferRef,
              isDraggingRef, dragTimerRef, backslashTimerRef, waitingForEnterRef,
              pasteBufferAtom, dragBufferAtom, kittySequenceBufferAtom,
              kittyProtocolEnabledAtom, effect, mounted, detecting, rawMode,
              bracketedPaste, kittyMode, timers, timerSeq, events, hist, ctx, fired,
              waitingSrc>>

vars == <<parseLoop, messages, split, message, config, isCIMode, decision,
          usePassthrough, kittySupported, session, isPasteRef, pasteBufferRef,
          isDraggingRef, dragTimerRef, backslashTimerRef, waitingForEnterRef,
          pasteBufferAtom, dragBufferAtom, kittySequenceBufferAtom,
          kittyProtocolEnabledAtom, effect, mounted, detecting, rawMode,
          bracketedPaste, kittyMode, timers, timerSeq, events, hist, ctx, fired,
          waitingSrc>>

env == <<usePassthrough, kittySupported, session>>

\* the state the handlers read and write, as one record; cur is the number
\* of input units received so far and by names the running callback (both
\* are set by the action, for the event log)
Cur ==
    [isPasteRef |-> isPasteRef, pasteBufferRef |-> pasteBufferRef,
     isDraggingRef |-> isDraggingRef, dragTimerRef |-> dragTimerRef,
     backslashTimerRef |-> backslashTimerRef,
     waitingForEnterRef |-> waitingForEnterRef,
     pasteBufferAtom |-> pasteBufferAtom, dragBufferAtom |-> dragBufferAtom,
     kittySequenceBufferAtom |-> kittySequenceBufferAtom,
     kittyProtocolEnabledAtom |-> kittyProtocolEnabledAtom,
     detecting |-> detecting, rawMode |-> rawMode,
     bracketedPaste |-> bracketedPaste, kittyMode |-> kittyMode,
     timers |-> timers, timerSeq |-> timerSeq, events |-> events,
     waitingSrc |-> waitingSrc, usePassthrough |-> usePassthrough,
     cur |-> Len(hist), by |-> "none"]

Becomes(s) ==
    /\ isPasteRef' = s.isPasteRef
    /\ pasteBufferRef' = s.pasteBufferRef
    /\ isDraggingRef' = s.isDraggingRef
    /\ dragTimerRef' = s.dragTimerRef
    /\ backslashTimerRef' = s.backslashTimerRef
    /\ waitingForEnterRef' = s.waitingForEnterRef
    /\ pasteBufferAtom' = s.pasteBufferAtom
    /\ dragBufferAtom' = s.dragBufferAtom
    /\ kittySequenceBufferAtom' = s.kittySequenceBufferAtom
    /\ kittyProtocolEnabledAtom' = s.kittyProtocolEnabledAtom
    /\ detecting' = s.detecting
    /\ rawMode' = s.rawMode
    /\ bracketedPaste' = s.bracketedPaste
    /\ kittyMode' = s.kittyMode
    /\ timers' = s.timers
    /\ timerSeq' = s.timerSeq
    /\ events' = s.events
    /\ waitingSrc' = s.waitingSrc
    /\ UNCHANGED <<approval, completion, parseLoop>>

(***************************************************************************)
(* Atoms of state/atoms/keyboard: the store behind the provider.           *)
(***************************************************************************)
\* an event as logged: the key, the callback that emitted it, the number of
\* units received by then, and the unit it stands for (0: coalesced input)
broadcastKey(s, key, src) ==
    [s EXCEPT !.events = Append(@, [key |-> key, by |-> s.by, at |-> s.cur, src |-> src])]

setPasteMode(s, isPaste) ==
    IF isPaste THEN s ELSE [s EXCEPT !.pasteBufferAtom = <<>>]

appendToPasteBuffer(s, text) == [s EXCEPT !.pasteBufferAtom = @ \o text]

setDragMode(s, isDrag) ==
    IF isDrag THEN s ELSE [s EXCEPT !.dragBufferAtom = <<>>]

appendToDragBuffer(s, text) == [s EXCEPT !.dragBufferAtom = @ \o text]

appendToKittyBuffer(s, text) == [s EXCEPT !.kittySequenceBufferAtom = @ \o text]

clearKittyBuffer(s) == [s EXCEPT !.kittySequenceBufferAtom = <<>>]

setKittyProtocol(s, enabled) == [s EXCEPT !.kittyProtocolEnabledAtom = enabled]

clearBuffers(s) ==
    [s EXCEPT !.pasteBufferAtom = <<>>, !.dragBufferAtom = <<>>,
              !.kittySequenceBufferAtom = <<>>]

(***************************************************************************)
(* Node timers.                                                            *)
(***************************************************************************)
\* clearTimeout(id)
clearTimeout(s, id) ==
    [s EXCEPT !.timers = SelectSeq(@, LAMBDA t : t.id # id)]

\* setTimeout(callback, ms): kind names the callback; key, dragBuffer and src
\* are what the callback closed over. The new timer's id is s.timerSeq + 1.
setTimeout(s, kind, key, dragBuffer, src) ==
    [s EXCEPT !.timerSeq = @ + 1,
              !.timers = Append(@, [id |-> s.timerSeq + 1, kind |-> kind, key |-> key,
                                    dragBuffer |-> dragBuffer, src |-> src])]

clearDragTimer(s) ==
    IF s.dragTimerRef # 0
    THEN [clearTimeout(s, s.dragTimerRef) EXCEPT !.dragTimerRef = 0]
    ELSE s

clearBackslashTimer(s) ==
    IF s.backslashTimerRef # 0
    THEN [clearTimeout(s, s.backslashTimerRef) EXCEPT !.backslashTimerRef = 0]
    ELSE s

(***************************************************************************)
(* completePaste, completeDrag.                                            *)
(***************************************************************************)
normalizePastedText(text) == ReplaceCR(ReplaceCRLF(text))

completePaste(s) ==
    IF s.isPasteRef /\ s.pasteBufferRef # <<>>
    THEN LET s1 == broadcastKey(s, createPasteKey(normalizePastedText(s.pasteBufferRef)), 0)
             s2 == setPasteMode(s1, FALSE)
         IN [s2 EXCEPT !.isPasteRef = FALSE, !.pasteBufferRef = <<>>]
    ELSE s

\* dragBuffer is the value of dragBufferAtom in the render that made this
\* completeDrag
completeDrag(s, dragBuffer) ==
    LET s1 == IF s.isDraggingRef /\ dragBuffer # <<>>
              THEN [setDragMode(broadcastKey(s, createPasteKey(dragBuffer), 0), FALSE)
                        EXCEPT !.isDraggingRef = FALSE]
              ELSE s
    IN clearDragTimer(s1)

(***************************************************************************)
(* handleKeypress.                                                         *)
(***************************************************************************)
\* the while loop over the accumulated buffer: the keys parsed, in order,
\* and what is left of the buffer
RECURSIVE KittyLoop(_, _)
KittyLoop(buffer, keys) ==
    IF buffer = <<>> THEN [buffer |-> buffer, keys |-> keys]
    ELSE LET bufferResult == parseKittySequence(buffer)
             nextStart == IndexOf(buffer, <<ESC>>, 1)
         IN IF ~bufferResult.ok
            THEN IF nextStart > 0
                 THEN KittyLoop(SliceFrom(buffer, nextStart), keys)
                 ELSE [buffer |-> buffer, keys |-> keys]
            ELSE KittyLoop(SliceFrom(buffer, bufferResult.consumedLength),
                           Append(keys, bufferResult.key))

\* the state of a run of the loop on the buffer of line 366: the buffer it
\* started from, what is left of it, the keys broadcast and the position in
\* the start buffer each was parsed at, parsedAny, the accumulator (line 363
\* has appended the sequence to it), and where control is
KittyLoopStart(buffer) ==
    [stage |-> "loop", input |-> buffer, buffer |-> buffer, keys |-> <<>>,
     offsets |-> <<>>, parsedAny |-> FALSE, accumulator |-> buffer]

\* a loop whose search for the next ESC starts at the front of the buffer
KittyLoopStep_SearchesFromStart(l) ==
    IF l.buffer = <<>> THEN [l EXCEPT !.stage = "after"]
    ELSE LET bufferResult == parseKittySequence(l.buffer)
             nextStart == IndexOf(l.buffer, <<ESC>>, 0)
         IN IF ~bufferResult.ok
            THEN IF nextStart > 0
                 THEN [l EXCEPT !.buffer = SliceFrom(@, nextStart)]
                 ELSE [l EXCEPT !.stage = "after"]
            ELSE [l EXCEPT !.buffer = SliceFrom(@, bufferResult.consumedLength),
                           !.keys = Append(@, bufferResult.key),
                           !.offsets = Append(@, Len(l.input) - Len(l.buffer)),
                           !.parsedAny = TRUE]

\* lines 369-391: the test of the while and one run of its body
KittyLoopStep(l) ==
    IF l.buffer = <<>> THEN [l EXCEPT !.stage = "after"]
    ELSE LET bufferResult == parseKittySequence(l.buffer)
             nextStart == IndexOf(l.buffer, <<ESC>>, 1)
         IN IF ~bufferResult.ok
            THEN IF nextStart > 0
                 THEN [l EXCEPT !.buffer = SliceFrom(@, nextStart)]
                 ELSE [l EXCEPT !.stage = "after"]
            ELSE [l EXCEPT !.buffer = SliceFrom(@, bufferResult.consumedLength),
                           !.keys = Append(@, bufferResult.key),
                           !.offsets = Append(@, Len(l.input) - Len(l.buffer)),
                           !.parsedAny = TRUE]

\* lines 393-410: with a key parsed the accumulator is cleared and the rest
\* of the buffer appended; without, the accumulator is left as it is
KittyLoopAfter(l) ==
    [l EXCEPT !.stage = "done",
              !.accumulator = IF l.parsedAny THEN l.buffer ELSE @]

\* no loop is running
NoLoop ==
    parseLoop = [stage |-> "none", input |-> <<>>, buffer |-> <<>>, keys |-> <<>>,
            offsets |-> <<>>, parsedAny |-> FALSE, accumulator |-> <<>>]

RECURSIVE BroadcastAll(_, _)
BroadcastAll(s, keys) ==
    IF keys = <<>> THEN s
    ELSE BroadcastAll(broadcastKey(s, Head(keys), s.cur), Tail(keys))

\* lines 412-418: Ctrl+C clears the buffers, then the key is broadcast
BroadcastParsedKey(s, parsedKey) ==
    broadcastKey(IF parsedKey.ctrl /\ parsedKey.name = "c" THEN clearBuffers(s) ELSE s,
                 parsedKey, s.cur)

\* lines 348-410
HandleKittySequence(s, parsedKey) ==
    LET result == parseKittySequence(parsedKey.sequence)
        s1 == appendToKittyBuffer(s, parsedKey.sequence)
        loop == KittyLoop(effect.kittyBuffer \o parsedKey.sequence, <<>>)
        parsedAny == loop.keys # <<>>
        s2 == clearKittyBuffer(BroadcastAll(s1, loop.keys))
    IN IF result.ok THEN broadcastKey(s, result.key, s.cur)
       ELSE IF parsedAny
            THEN IF loop.buffer # <<>> THEN appendToKittyBuffer(s2, loop.buffer) ELSE s2
       ELSE IF Len(effect.kittyBuffer) > MAX_KITTY_SEQUENCE_LENGTH
            THEN BroadcastParsedKey(clearKittyBuffer(s1), parsedKey)
       ELSE s1

\* a decoder that starts the detection window without noting that a
\* backslash is held
HoldBackslash_NotWaiting(s, parsedKey) ==
    LET s1 == setTimeout(s, "backslash", parsedKey, <<>>, s.cur)
    IN [s1 EXCEPT !.backslashTimerRef = s.timerSeq + 1]

\* lines 332-339: a lone backslash starts the detection window
HoldBackslash(s, parsedKey) ==
    LET s1 == setTimeout(s, "backslash", parsedKey, <<>>, s.cur)
    IN [s1 EXCEPT !.waitingForEnterRef = TRUE,
                  !.backslashTimerRef = s.timerSeq + 1,
                  !.waitingSrc = s.cur]

\* a flush that emits the held backslash and leaves its timer running
FlushBackslash_KeepsTimer(s) ==
    broadcastKey([s EXCEPT !.waitingForEnterRef = FALSE],
                 createSpecialKey("", BACKSLASH), s.waitingSrc)

\* lines 341-346: the held backslash goes out before the current key
FlushBackslash(s) ==
    LET s1 == [clearBackslashTimer(s) EXCEPT !.waitingForEnterRef = FALSE]
    IN broadcastKey(s1, createSpecialKey("", BACKSLASH), s.waitingSrc)

\* lines 284-294
HandleDrag(s, parsedKey) ==
    LET s1 == appendToDragBuffer([s EXCEPT !.isDraggingRef = TRUE], parsedKey.sequence)
        s2 == clearDragTimer(s1)
        s3 == setTimeout(s2, "drag", NoKey, effect.dragBuffer, s.cur)
    IN [s3 EXCEPT !.dragTimerRef = s2.timerSeq + 1]

handleKeypress(s, parsedKey) ==
    LET seq == parsedKey.sequence
        focus == isFocusEvent(seq)
        paste == isPasteModeBoundary(seq)
        mappedLetter == mapAltKeyCharacter(seq)
        s9 == IF s.waitingForEnterRef /\ parsedKey.name # "return"
              THEN FlushBackslash(s) ELSE s
    IN IF focus.isFocusIn \/ focus.isFocusOut THEN s
       ELSE IF paste.isStart
            THEN setPasteMode([s EXCEPT !.isPasteRef = TRUE, !.pasteBufferRef = <<>>], TRUE)
       ELSE IF paste.isEnd THEN completePaste(s)
       ELSE IF s.isPasteRef
            THEN IF ~s.usePassthrough
                 THEN appendToPasteBuffer([s EXCEPT !.pasteBufferRef = @ \o seq], seq)
                 ELSE s
       ELSE IF isDragStart(seq) \/ s.isDraggingRef THEN HandleDrag(s, parsedKey)
       ELSE IF mappedLetter # "" /\ ~parsedKey.meta
            THEN broadcastKey(s, [parsedKey EXCEPT !.name = mappedLetter, !.meta = TRUE], s.cur)
       ELSE IF parsedKey.name = "return" /\ s.waitingForEnterRef
            THEN broadcastKey([clearBackslashTimer(s) EXCEPT !.waitingForEnterRef = FALSE],
                              [parsedKey EXCEPT !.shift = TRUE], s.cur)
       ELSE IF seq = <<ESC, CR>> \/ seq = <<ESC, LF>>
            THEN broadcastKey(s, Key("return", seq, FALSE, FALSE, TRUE, FALSE), s.cur)
       ELSE IF seq = BACKSLASH /\ parsedKey.name = "" THEN HoldBackslash(s, parsedKey)
       ELSE IF effect.isKittyEnabled /\ StartsWith(seq, <<ESC>>)
            THEN HandleKittySequence(s9, parsedKey)
       ELSE BroadcastParsedKey(s9, parsedKey)

(***************************************************************************)
(* Input units.                                                            *)
(***************************************************************************)
ALT_A == <<ESC, "a">>

KITTY_RETURN == <<ESC, "[", "1", "3", "u">>

KITTY_PREFIX == <<ESC, "[", "1", "3">>

KITTY_REST == <<"u">>

KITTY_JUNK == <<ESC, "[", "?">>

\* a whole paste in one raw chunk: only the raw data listener can receive it
\* in one piece
PASTE_CHUNK == PASTE_MODE_PREFIX \o <<"a", CR, LF, CR>> \o PASTE_MODE_SUFFIX

\* every sequence readline hands over as one keypress
KnownSequences ==
    {FOCUS_IN, FOCUS_OUT, PASTE_MODE_PREFIX, PASTE_MODE_SUFFIX, <<ESC, CR>>,
     <<ESC, LF>>, ALT_A, KITTY_RETURN, KITTY_PREFIX, KITTY_JUNK}

\* the input of a paste session: markers, content, Ctrl+C, a drag start
PasteUnits ==
    {PASTE_MODE_PREFIX, PASTE_MODE_SUFFIX, <<CR>>, <<LF>>, <<ETX>>, <<QUOTE>>,
     PASTE_CHUNK}

\* the input of a typing session: backslash, Return, the Shift+Enter
\* encodings, an Alt letter, a plain letter
KeyUnits == {BACKSLASH, <<CR>>, <<ESC, CR>>, <<ESC, LF>>, ALT_A, <<"a">>}

\* the input that starts and resolves timers
TimerUnits == {BACKSLASH, <<CR>>, <<QUOTE>>, <<"a">>}

\* the input of a session with the extended protocol
KittyUnits == {KITTY_RETURN, KITTY_PREFIX, KITTY_REST, KITTY_JUNK, BACKSLASH}


\* the input that fills the accumulator: unparseable and valid sequences,
\* and a backslash
OverflowUnits == {KITTY_JUNK, KITTY_RETURN, BACKSLASH}

\* the input of a paste in a terminal that reports focus changes: markers,
\* content, a focus report, a drag start
FocusUnits == {PASTE_MODE_PREFIX, PASTE_MODE_SUFFIX, <<CR>>, FOCUS_IN, <<QUOTE>>}
Sessions == {"paste", "keys", "timers", "kitty", "overflow", "focus"}

\* the raw units a session draws its input from
Alphabet(name) ==
    CASE name = "paste" -> PasteUnits
      [] name = "keys" -> KeyUnits
      [] name = "timers" -> TimerUnits
      [] name = "kitty" -> KittyUnits
      [] name = "overflow" -> OverflowUnits
      [] name = "focus" -> FocusUnits

(***************************************************************************)
(* handleRawData (lines 421-485).                                          *)
(***************************************************************************)
\* readline.emitKeypressEvents on the keypress stream: the written data cut
\* into keypress sequences, a known escape sequence being one keypress
RECURSIVE EmitKeypressEvents(_)
EmitKeypressEvents(data) ==
    IF data = <<>> THEN <<>>
    ELSE LET known == {n \in 1..Len(data) : SubSeq(data, 1, n) \in KnownSequences}
             n == IF known = {} THEN 1 ELSE CHOOSE m \in known : \A k \in known : k <= m
         IN <<SubSeq(data, 1, n)>> \o EmitKeypressEvents(SliceFrom(data, n))

RECURSIVE HandleKeypresses(_, _)
HandleKeypresses(s, seqs) ==
    IF seqs = <<>> THEN s
    ELSE HandleKeypresses(handleKeypress(s, parseReadlineKey(Head(seqs))), Tail(seqs))

\* keypressStream.write(data): the listener of the stream runs handleKeypress
KeypressStreamWrite(s, data) == HandleKeypresses(s, EmitKeypressEvents(data))

\* data outside the markers: into the paste buffer, or on to the stream
RawSegment(s, chunk) ==
    IF s.isPasteRef
    THEN appendToPasteBuffer([s EXCEPT !.pasteBufferRef = @ \o chunk], chunk)
    ELSE KeypressStreamWrite(s, chunk)

RECURSIVE RawDataLoop(_, _, _)
RawDataLoop(s, dataStr, pos) ==
    IF ~(pos < Len(dataStr)) THEN s
    ELSE LET prefixPos == IndexOf(dataStr, PASTE_MODE_PREFIX, pos)
             suffixPos == IndexOf(dataStr, PASTE_MODE_SUFFIX, pos)
             isPrefixNext == prefixPos # -1 /\ (suffixPos = -1 \/ prefixPos < suffixPos)
             isSuffixNext == ~isPrefixNext /\ suffixPos # -1
             nextMarkerPos == IF isPrefixNext THEN prefixPos
                              ELSE IF isSuffixNext THEN suffixPos ELSE -1
             s1 == IF nextMarkerPos > pos
                   THEN RawSegment(s, Slice(dataStr, pos, nextMarkerPos))
                   ELSE s
         IN IF nextMarkerPos = -1 THEN RawSegment(s, SliceFrom(dataStr, pos))
            ELSE IF isPrefixNext
                 THEN RawDataLoop(
                          setPasteMode([s1 EXCEPT !.isPasteRef = TRUE,
                                                  !.pasteBufferRef = <<>>], TRUE),
                          dataStr, nextMarkerPos + Len(PASTE_MODE_PREFIX))
                 ELSE RawDataLoop(completePaste(s1), dataStr,
                                  nextMarkerPos + Len(PASTE_MODE_SUFFIX))

handleRawData(s, data) == IF ~s.usePassthrough THEN s ELSE RawDataLoop(s, data, 0)

(***************************************************************************)
(* The effect (lines 196-550): set-up, clean-up and its dependencies.      *)
(***************************************************************************)
\* the atom values among the dependencies of the effect
AtomValues(s) ==
    [pasteBuffer |-> s.pasteBufferAtom, dragBuffer |-> s.dragBufferAtom,
     kittyBuffer |-> s.kittySequenceBufferAtom,
     isKittyEnabled |-> s.kittyProtocolEnabledAtom]

\* a clean-up that leaves the buffers as they are
EffectCleanup_KeepsBuffers(s, closure) ==
    LET s1 == [s EXCEPT !.bracketedPaste = FALSE,
                        !.kittyMode = IF closure.isKittyEnabled THEN FALSE ELSE @,
                        !.rawMode = IF ~closure.wasRaw THEN FALSE ELSE @]
        s2 == clearBackslashTimer(clearDragTimer(s1))
    IN completeDrag(completePaste(s2), closure.dragBuffer)

\* the function the effect returns (lines 494-526), run with the values the
\* effect closed over
EffectCleanup(s, closure) ==
    LET s1 == [s EXCEPT !.bracketedPaste = FALSE,
                        !.kittyMode = IF closure.isKittyEnabled THEN FALSE ELSE @,
                        !.rawMode = IF ~closure.wasRaw THEN FALSE ELSE @]
        s2 == clearBackslashTimer(clearDragTimer(s1))
        s3 == completeDrag(completePaste(s2), closure.dragBuffer)
    IN clearBuffers(s3)

\* the body of the effect up to the first await of init (lines 197-224)
EffectSetup(s) ==
    [s EXCEPT !.rawMode = TRUE, !.bracketedPaste = TRUE, !.detecting = @ + 1]

\* what an effect set up in state s, rendered with the atom values render,
\* closes over
Closure(s, render) ==
    [pasteBuffer |-> render.pasteBuffer, dragBuffer |-> render.dragBuffer,
     kittyBuffer |-> render.kittyBuffer, isKittyEnabled |-> render.isKittyEnabled,
     wasRaw |-> s.rawMode]

(***************************************************************************)
(* The approval decision service (services/logs.ts, lines 735-1051).       *)
(* A message text is the JSON document it holds: nothing, a text that does *)
(* not parse, or an object with the fields the service reads.              *)
(***************************************************************************)
CI_MODE_AUTO_REJECTED == "CI_MODE_MESSAGES.AUTO_REJECTED"

CI_MODE_FOLLOWUP_RESPONSE == "CI_MODE_MESSAGES.FOLLOWUP_RESPONSE"

\* the text of a message: form is "empty", "invalid" (raw is the text) or
\* "object" (tool is "" and command is <<>> where the field is missing)
Text(form, raw, tool, isOutsideWorkspace, isProtected, command) ==
    [form |-> form, raw |-> raw, tool |-> tool,
     isOutsideWorkspace |-> isOutsideWorkspace, isProtected |-> isProtected,
     command |-> command]

EmptyText == Text("empty", <<>>, "", FALSE, FALSE, <<>>)

InvalidText(raw) == Text("invalid", raw, "", FALSE, FALSE, <<>>)

ToolText(tool, isOutsideWorkspace, isProtected) ==
    Text("object", <<>>, tool, isOutsideWorkspace, isProtected, <<>>)

CommandText(command) == Text("object", <<>>, "", FALSE, FALSE, command)

\* JSON.stringify of an object text, the field names and quotes left out
Stringify(text) ==
    <<"{">> \o (IF text.tool # "" THEN <<"t">> ELSE <<>>) \o text.command \o <<"}">>

\* message.text as a string
TextString(text) ==
    IF text.form = "empty" THEN <<>>
    ELSE IF text.form = "invalid" THEN text.raw
    ELSE Stringify(text)

\* JSON.parse(message.text || "{}"): ok is false where it throws
JSONParse(text) ==
    IF text.form = "invalid" THEN [ok |-> FALSE, value |-> EmptyText]
    ELSE [ok |-> TRUE, value |-> text]

ApprovalDecision(action, hasDelay, delay, hasMessage, msg) ==
    [action |-> action, hasDelay |-> hasDelay, delay |-> delay,
     hasMessage |-> hasMessage, message |-> msg]

AutoApprove == ApprovalDecision("auto-approve", FALSE, 0, FALSE, "")

Manual == ApprovalDecision("manual", FALSE, 0, FALSE, "")

AutoReject == ApprovalDecision("auto-reject", FALSE, 0, TRUE, CI_MODE_AUTO_REJECTED)

\* isCIMode ? auto-reject : manual
RejectOrManual(ci) == IF ci THEN AutoReject ELSE Manual

\* lines 766-777
matchesCommandPattern(command, patterns) ==
    IF Len(patterns) = 0 THEN FALSE
    ELSE \E i \in DOMAIN patterns :
            \/ patterns[i] = <<"*">>
            \/ patterns[i] = command
            \/ StartsWith(command, patterns[i])

ReadTools ==
    {"readFile", "listFiles", "listFilesTopLevel", "listFilesRecursive", "searchFiles",
     "codebaseSearch", "listCodeDefinitionNames"}

WriteTools ==
    {"editedExistingFile", "appliedDiff", "newFileCreated", "insertContent",
     "searchAndReplace"}

\* lines 782-882
getToolApprovalDecision(msg, cfg, ci) ==
    LET parsed == JSONParse(msg.text)
        toolData == parsed.value
        tool == toolData.tool
        isOutsideWorkspace == toolData.isOutsideWorkspace = TRUE
        isProtected == toolData.isProtected = TRUE
        readApprove == IF isOutsideWorkspace THEN cfg.read.outside ELSE cfg.read.enabled
        writeApprove == IF isProtected THEN cfg.write.protected
                        ELSE IF isOutsideWorkspace THEN cfg.write.outside
                        ELSE cfg.write.enabled
        Enabled(flag) == IF flag THEN AutoApprove ELSE RejectOrManual(ci)
    IN IF ~parsed.ok THEN RejectOrManual(ci)
       ELSE IF tool \in ReadTools THEN Enabled(readApprove)
       ELSE IF tool \in WriteTools THEN Enabled(writeApprove)
       ELSE IF tool = "browser_action" THEN Enabled(cfg.browser.enabled)
       ELSE IF tool \in {"use_mcp_tool", "access_mcp_resource"} THEN Enabled(cfg.mcp.enabled)
       ELSE IF tool = "switchMode" THEN Enabled(cfg.mode.enabled)
       ELSE IF tool = "newTask" THEN Enabled(cfg.subtasks.enabled)
       ELSE IF tool = "updateTodoList" THEN Enabled(cfg.todo.enabled)
       ELSE RejectOrManual(ci)

\* lines 899-907: commandData.command || message.text || ""
ParseCommand(msg) ==
    LET parsed == JSONParse(msg.text)
    IN IF parsed.ok /\ parsed.value.command # <<>> THEN parsed.value.command
       ELSE TextString(msg.text)

\* a service that looks at the allowed list before the denied list
getCommandApprovalDecision_AllowedFirst(msg, cfg, ci) ==
    LET command == ParseCommand(msg)
        allowedCommands == cfg.execute.allowed
        deniedCommands == cfg.execute.denied
    IN IF ~cfg.execute.enabled THEN RejectOrManual(ci)
       ELSE IF matchesCommandPattern(command, allowedCommands) THEN AutoApprove
       ELSE RejectOrManual(ci)

\* lines 887-940
getCommandApprovalDecision(msg, cfg, ci) ==
    LET command == ParseCommand(msg)
        allowedCommands == cfg.execute.allowed
        deniedCommands == cfg.execute.denied
    IN IF ~cfg.execute.enabled THEN RejectOrManual(ci)
       ELSE IF matchesCommandPattern(command, deniedCommands) THEN RejectOrManual(ci)
       ELSE IF Len(allowedCommands) = 0 THEN RejectOrManual(ci)
       ELSE IF matchesCommandPattern(command, allowedCommands) THEN AutoApprove
       ELSE RejectOrManual(ci)

\* lines 949-969
getFollowupApprovalDecision(msg, cfg, ci) ==
    IF ci THEN ApprovalDecision("auto-approve", FALSE, 0, TRUE, CI_MODE_FOLLOWUP_RESPONSE)
    ELSE IF cfg.question.enabled THEN AutoApprove
    ELSE Manual

\* lines 974-993
getRetryApprovalDecision(msg, cfg, ci) ==
    IF cfg.retry.enabled
    THEN IF ci THEN AutoApprove
         ELSE ApprovalDecision("auto-approve", TRUE, cfg.retry.delay * 1000, FALSE, "")
    ELSE RejectOrManual(ci)

\* a service that leaves an unknown ask type to the user in every mode
getApprovalDecision_UnknownManual(msg, cfg, ci) ==
    IF msg.type # "ask" THEN Manual
    ELSE IF msg.partial \/ msg.isAnswered THEN Manual
    ELSE IF msg.ask = "tool" THEN getToolApprovalDecision(msg, cfg, ci)
    ELSE IF msg.ask = "command" THEN getCommandApprovalDecision(msg, cfg, ci)
    ELSE IF msg.ask = "followup" THEN getFollowupApprovalDecision(msg, cfg, ci)
    ELSE IF msg.ask = "api_req_failed" THEN getRetryApprovalDecision(msg, cfg, ci)
    ELSE Manual

\* lines 1017-1051
getApprovalDecision(msg, cfg, ci) ==
    IF msg.type # "ask" THEN Manual
    ELSE IF msg.partial \/ msg.isAnswered THEN Manual
    ELSE IF msg.ask = "tool" THEN getToolApprovalDecision(msg, cfg, ci)
    ELSE IF msg.ask = "command" THEN getCommandApprovalDecision(msg, cfg, ci)
    ELSE IF msg.ask = "followup" THEN getFollowupApprovalDecision(msg, cfg, ci)
    ELSE IF msg.ask = "api_req_failed" THEN getRetryApprovalDecision(msg, cfg, ci)
    ELSE RejectOrManual(ci)

\* no decision has been asked for
Undecided == ApprovalDecision("none", FALSE, 0, FALSE, "")

\* the requests and configurations of the approval sessions
Commands == {<<"n">>, <<"n", "p">>, <<"p">>}

Patterns == {<<"*">>, <<>>, <<"n">>, <<"n", "p">>, <<"p">>}

PatternLists ==
    {<<>>} \cup {<<a>> : a \in Patterns} \cup {<<a, b>> : a \in Patterns, b \in Patterns}

Flags(enabled) == [enabled |-> enabled]

\* a configuration: the flags of files, commands, the other tools and the
\* other asks
Config(read, write, execute, tools, asks) ==
    [read |-> read, write |-> write, execute |-> execute,
     browser |-> Flags(tools.browser), mcp |-> Flags(tools.mcp),
     mode |-> Flags(tools.mode), subtasks |-> Flags(tools.subtasks),
     todo |-> Flags(tools.todo), question |-> Flags(asks.question),
     retry |-> [enabled |-> asks.retry, delay |-> asks.delay]]

NoFiles == [enabled |-> FALSE, outside |-> FALSE]

NoWrites == [enabled |-> FALSE, outside |-> FALSE, protected |-> FALSE]

NoExecute == [enabled |-> FALSE, allowed |-> <<>>, denied |-> <<>>]

NoTools ==
    [browser |-> FALSE, mcp |-> FALSE, mode |-> FALSE, subtasks |-> FALSE, todo |-> FALSE]

NoAsks == [question |-> FALSE, retry |-> FALSE, delay |-> 10]

Message(type, ask, text, partial, isAnswered) ==
    [type |-> type, ask |-> ask, text |-> text, partial |-> partial,
     isAnswered |-> isAnswered]

\* the messages of one ask type with the texts given
MessagesOf(asks, texts) ==
    {Message(type, ask, text, partial, isAnswered) :
        type \in {"ask", "say"}, ask \in asks, text \in texts,
        partial \in BOOLEAN, isAnswered \in BOOLEAN}

CommandTexts ==
    {EmptyText, CommandText(<<>>)} \cup {InvalidText(c) : c \in Commands}
        \cup {CommandText(c) : c \in Commands}

ToolNames ==
    {"readFile", "searchFiles", "editedExistingFile", "newFileCreated", "browser_action",
     "use_mcp_tool", "switchMode", "newTask", "updateTodoList", "unknownTool", ""}

ToolTexts ==
    {EmptyText, InvalidText(<<"n">>)}
        \cup {ToolText(tool, o, p) : tool \in ToolNames, o \in BOOLEAN, p \in BOOLEAN}

\* nothing asks for approval
NoRequest ==
    /\ message = Message("say", "", EmptyText, FALSE, FALSE)
    /\ config = Config(NoFiles, NoWrites, NoExecute, NoTools, NoAsks)
    /\ isCIMode = FALSE
    /\ decision = Undecided

(***************************************************************************)
(* Message completion (src/unnamed/part_004, lines 65-290).                *)
(***************************************************************************)
MaxMessages == 3

SPACE == " "

\* String.prototype.trim
RECURSIVE TrimStart(_)
TrimStart(s) == IF s # <<>> /\ Head(s) = SPACE THEN TrimStart(Tail(s)) ELSE s

RECURSIVE TrimEnd(_)
TrimEnd(s) ==
    IF s # <<>> /\ s[Len(s)] = SPACE THEN TrimEnd(SubSeq(s, 1, Len(s) - 1)) ELSE s

Trim(s) == TrimEnd(TrimStart(s))

\* a unified message: its source and the fields of the message the
\* completion rules read; api is what the text of an api_req_started message
\* tells ("none", "pending", "cost", "cancelReason", "streamingFailedMessage")
UnifiedMessage(source, type, say, ask, partial, isAnswered, text, api) ==
    [source |-> source,
     message |-> [type |-> type, say |-> say, ask |-> ask, partial |-> partial,
                  isAnswered |-> isAnswered, text |-> text, api |-> api]]

\* parseApiReqInfo of extension/utils
parseApiReqInfo(m) == m.api

\* lines 80-89
isCliMessageComplete(m) == m.partial # TRUE

\* lines 100-163
isExtensionMessageComplete(m) ==
    IF m.partial = TRUE THEN FALSE
    ELSE IF m.say = "api_req_started"
         THEN parseApiReqInfo(m) \in {"streamingFailedMessage", "cancelReason", "cost"}
    ELSE IF m.type = "ask"
         THEN IF m.ask \in {"completion_result", "command_output"} THEN TRUE
              ELSE ~m.partial
    ELSE TRUE

\* lines 169-174
isMessageComplete(msg) ==
    IF msg.source = "cli" THEN isCliMessageComplete(msg.message)
    ELSE isExtensionMessageComplete(msg.message)

\* lines 179-207: the loop, from message i on, with the hashes seen so far
RECURSIVE DeduplicateFrom(_, _, _)
DeduplicateFrom(msgs, i, seenCheckpointHashes) ==
    IF i > Len(msgs) THEN <<>>
    ELSE LET msg == msgs[i]
             isCheckpoint == /\ msg.source = "extension"
                             /\ msg.message.type = "say"
                             /\ msg.message.say = "checkpoint_saved"
                             /\ msg.message.text # <<>>
             hash == Trim(msg.message.text)
         IN IF isCheckpoint /\ hash \in seenCheckpointHashes
            THEN DeduplicateFrom(msgs, i + 1, seenCheckpointHashes)
            ELSE <<msg>> \o DeduplicateFrom(msgs, i + 1,
                                IF isCheckpoint THEN seenCheckpointHashes \cup {hash}
                                ELSE seenCheckpointHashes)

deduplicateCheckpointMessages(msgs) == DeduplicateFrom(msgs, 1, {})

\* lines 230-270: the loop from index i (0-based), giving lastCompleteIndex
RECURSIVE LastCompleteIndex(_, _, _)
LastCompleteIndex(deduplicatedMessages, i, lastCompleteIndex) ==
    IF ~(i < Len(deduplicatedMessages)) THEN lastCompleteIndex
    ELSE IF isMessageComplete(deduplicatedMessages[i + 1])
         THEN IF i = 0 \/ i = lastCompleteIndex + 1
              THEN LastCompleteIndex(deduplicatedMessages, i + 1, i)
              ELSE lastCompleteIndex
    ELSE lastCompleteIndex

\* a split that takes every complete message for static, wherever it stands
splitMessages_EveryComplete(msgs) ==
    LET deduplicatedMessages == deduplicateCheckpointMessages(msgs)
    IN [staticMessages |-> SelectSeq(deduplicatedMessages, isMessageComplete),
        dynamicMessages |->
            SelectSeq(deduplicatedMessages, LAMBDA m : ~isMessageComplete(m))]

\* lines 221-290
splitMessages(msgs) ==
    LET deduplicatedMessages == deduplicateCheckpointMessages(msgs)
        lastCompleteIndex == LastCompleteIndex(deduplicatedMessages, 0, -1)
    IN [staticMessages |-> Slice(deduplicatedMessages, 0, lastCompleteIndex + 1),
        dynamicMessages |-> SliceFrom(deduplicatedMessages, lastCompleteIndex + 1)]

\* the messages a list is made of
CliMessages ==
    {UnifiedMessage("cli", "assistant", "", "", partial, FALSE, <<>>, "none") :
        partial \in BOOLEAN}

CheckpointMessages ==
    {UnifiedMessage("extension", "say", "checkpoint_saved", "", FALSE, FALSE, text, "none") :
        text \in {<<"h">>, <<SPACE, "h">>, <<"g">>, <<>>}}

ApiReqMessages ==
    {UnifiedMessage("extension", "say", "api_req_started", "", FALSE, FALSE, <<>>, api) :
        api \in {"none", "pending", "cost"}}

AskMessages ==
    {UnifiedMessage("extension", "ask", "", ask, partial, isAnswered, <<>>, "none") :
        ask \in {"tool", "completion_result"}, partial \in BOOLEAN,
        isAnswered \in BOOLEAN}

UnifiedMessages == CliMessages \cup CheckpointMessages \cup ApiReqMessages \cup AskMessages

MessageLists == UNION {[1..n -> UnifiedMessages] : n \in 0..MaxMessages}

\* splitMessages has not been called
NotSplit == [done |-> FALSE, staticMessages |-> <<>>, dynamicMessages |-> <<>>]

\* the UI shows no messages
NoMessages == messages = <<>> /\ split = NotSplit

(***************************************************************************)
(* Initial state: the provider has mounted, the effect has run once and    *)
(* its protocol detection is awaiting the terminal's answer.               *)
(***************************************************************************)
InitSession ==
    /\ isPasteRef = FALSE
    /\ pasteBufferRef = <<>>
    /\ isDraggingRef = FALSE
    /\ dragTimerRef = 0
    /\ backslashTimerRef = 0
    /\ waitingForEnterRef = FALSE
    /\ pasteBufferAtom = <<>>
    /\ dragBufferAtom = <<>>
    /\ kittySequenceBufferAtom = <<>>
    /\ kittyProtocolEnabledAtom = FALSE
    /\ effect = [pasteBuffer |-> <<>>, dragBuffer |-> <<>>, kittyBuffer |-> <<>>,
                 isKittyEnabled |-> FALSE, wasRaw |-> FALSE]
    /\ mounted = TRUE
    /\ detecting = 1
    /\ rawMode = TRUE
    /\ bracketedPaste = TRUE
    /\ kittyMode = FALSE
    /\ timers = <<>>
    /\ timerSeq = 0
    /\ events = <<>>
    /\ hist = <<>>
    /\ ctx = <<>>
    /\ fired = <<>>
    /\ waitingSrc = 0

\* a session: its interception mode, its terminal, its input; nothing asks
\* for approval
Session(modes, terminals, name) ==
    /\ usePassthrough \in modes
    /\ kittySupported \in terminals
    /\ session = name
    /\ InitSession
    /\ NoRequest
    /\ NoMessages
    /\ NoLoop

Init == \E name \in Sessions : Session(BOOLEAN, BOOLEAN, name)

\* (the terminal of the paste and timer sessions lacks the extended protocol)
InitPaste == Session(BOOLEAN, {FALSE}, "paste")

InitKeys == Session(BOOLEAN, BOOLEAN, "keys")

InitTimers == Session(BOOLEAN, {FALSE}, "timers")

InitKitty == Session(BOOLEAN, {TRUE}, "kitty")
InitOverflow == Session(BOOLEAN, {TRUE}, "overflow")
InitFocus == Session(BOOLEAN, {FALSE}, "focus")

(***************************************************************************)
(* Actions.                                                                *)
(***************************************************************************)
\* the record a callback starts from
Enter(by, units) == [Cur EXCEPT !.by = by, !.cur = units]

\* no capture, no held backslash, no buffered sequence, no pending timer
Idle ==
    /\ ~isPasteRef /\ pasteBufferRef = <<>> /\ ~isDraggingRef /\ ~waitingForEnterRef
    /\ pasteBufferAtom = <<>> /\ dragBufferAtom = <<>> /\ kittySequenceBufferAtom = <<>>
    /\ effect.kittyBuffer = <<>> /\ effect.dragBuffer = <<>>
    /\ timers = <<>>

\* the accumulator of the extended protocol holds more than the maximum
Overflowing == Len(kittySequenceBufferAtom) > MAX_KITTY_SEQUENCE_LENGTH

\* history: a unit arrives
Receive(unit) ==
    /\ hist' = Append(hist, unit)
    /\ ctx' = Append(ctx, [idle |-> Idle, kitty |-> effect.isKittyEnabled,
                           over |-> Overflowing])

\* readline delivers one keypress (decoded-keypress mode)
Keypress(seq) ==
    /\ mounted /\ ~usePassthrough
    /\ Len(hist) < MaxUnits
    /\ seq \in Alphabet(session) \ {PASTE_CHUNK}
    /\ Becomes(handleKeypress(Enter("keypress", Len(hist) + 1), parseReadlineKey(seq)))
    /\ Receive(seq)
    /\ UNCHANGED <<env, effect, mounted, fired>>

\* stdin delivers one chunk (raw-interception mode)
RawData(data) ==
    /\ mounted /\ usePassthrough
    /\ Len(hist) < MaxUnits
    /\ data \in Alphabet(session)
    /\ Becomes(handleRawData(Enter("data", Len(hist) + 1), data))
    /\ Receive(data)
    /\ UNCHANGED <<env, effect, mounted, fired>>

\* a timer callback that emits the backslash and goes on waiting for Return
BackslashTimeout_StillWaiting(s, t) == broadcastKey(s, t.key, t.src)

\* lines 334-337
BackslashTimeout(s, t) == broadcastKey([s EXCEPT !.waitingForEnterRef = FALSE], t.key, t.src)

\* lines 290-292
DragTimeout(s, t) == completeDrag(s, t.dragBuffer)

\* Node runs the callback of a pending timer; timers of one duration expire
\* in the order they were set
TimerFire(i) ==
    LET t == timers[i]
        s == [Enter("timer", Len(hist)) EXCEPT !.timers = SelectSeq(@, LAMBDA x : x.id # t.id)]
    IN /\ i \in DOMAIN timers
       /\ \A j \in 1..(i - 1) : timers[j].kind # t.kind
       /\ Becomes(IF t.kind = "backslash" THEN BackslashTimeout(s, t) ELSE DragTimeout(s, t))
       /\ fired' = Append(fired, [kind |-> t.kind, src |-> t.src, at |-> Len(hist),
                                  waiting |-> waitingForEnterRef, held |-> waitingSrc,
                                  dragging |-> isDraggingRef])
       /\ UNCHANGED <<env, effect, mounted, hist, ctx>>

\* React re-runs the effect after a render in which a dependency changed:
\* the old effect's clean-up, then the set-up with the rendered values
EffectRerun ==
    LET render == AtomValues(Cur)
        s1 == EffectCleanup(Enter("rerun", Len(hist)), effect)
    IN /\ mounted
       /\ render # [pasteBuffer |-> effect.pasteBuffer, dragBuffer |-> effect.dragBuffer,
                    kittyBuffer |-> effect.kittyBuffer,
                    isKittyEnabled |-> effect.isKittyEnabled]
       /\ Becomes(EffectSetup(s1))
       /\ effect' = Closure(s1, render)
       /\ UNCHANGED <<env, mounted, hist, ctx, fired>>

\* autoEnableKittyProtocol resolves and init continues (lines 215-221)
DetectComplete ==
    LET s1 == [Cur EXCEPT !.detecting = @ - 1,
                          !.kittyMode = IF kittySupported THEN TRUE ELSE @]
    IN /\ detecting > 0
       /\ Becomes(setKittyProtocol(s1, kittySupported))
       /\ UNCHANGED <<env, effect, mounted, hist, ctx, fired>>

\* the provider unmounts: the clean-up of the mounted effect runs
Stop ==
    /\ mounted
    /\ Becomes(EffectCleanup(Enter("stop", Len(hist)), effect))
    /\ mounted' = FALSE
    /\ UNCHANGED <<env, effect, hist, ctx, fired>>

Next ==
    \/ \E seq \in Alphabet(session) : Keypress(seq)
    \/ \E data \in Alphabet(session) : RawData(data)
    \/ \E i \in DOMAIN timers : TimerFire(i)
    \/ EffectRerun
    \/ DetectComplete
    \/ Stop

Spec == Init /\ [][Next]_vars

\* sessions whose input is paste markers, paste content, Ctrl+C and a drag
SpecPaste == InitPaste /\ [][Next]_vars

\* sessions whose input is plain keys, backslash and the Shift+Enter encodings
SpecKeys == InitKeys /\ [][Next]_vars

\* sessions whose input starts and resolves the backslash and drag timers
SpecTimers == InitTimers /\ [][Next]_vars

\* sessions of a terminal with the extended protocol
SpecKitty == InitKitty /\ [][Next]_vars

\* sessions of unparseable and valid sequences, React running every effect
\* whose dependencies changed
SpecOverflow == InitOverflow /\ [][Next]_vars /\ WF_vars(EffectRerun)

\* paste sessions in a terminal that reports focus changes
SpecFocus == InitFocus /\ [][Next]_vars

(***************************************************************************)
(* The approval decision service at work: a request arrives with a         *)
(* configuration, getApprovalDecision is called on it once.                *)
(***************************************************************************)
\* the configurations that differ in the flags of command execution
CommandConfigs ==
    {Config(NoFiles, NoWrites, [enabled |-> e, allowed |-> a, denied |-> d],
            NoTools, NoAsks) :
        e \in BOOLEAN, a \in PatternLists, d \in PatternLists}

\* the flags of the tools other than files: none, all, or one of them
ToolFlags ==
    {[browser |-> b = "browser" \/ b = "all", mcp |-> b = "mcp" \/ b = "all",
      mode |-> b = "mode" \/ b = "all", subtasks |-> b = "subtasks" \/ b = "all",
      todo |-> b = "todo" \/ b = "all"] :
        b \in {"none", "all", "browser", "mcp", "mode", "subtasks", "todo"}}

\* the configurations that differ in the flags of the tools
ToolConfigs ==
    {Config([enabled |-> re, outside |-> ro],
            [enabled |-> we, outside |-> wo, protected |-> wp],
            NoExecute, tools, NoAsks) :
        re \in BOOLEAN, ro \in BOOLEAN, we \in BOOLEAN, wo \in BOOLEAN,
        wp \in BOOLEAN, tools \in ToolFlags}

\* the configurations that differ in the flags of questions and retries
AskConfigs ==
    {Config(NoFiles, NoWrites, NoExecute, NoTools,
            [question |-> q, retry |-> r, delay |-> d]) :
        q \in BOOLEAN, r \in BOOLEAN, d \in {0, 10}}

\* a request arrives: the keyboard provider is as after its start
Request(requests, configs) ==
    /\ usePassthrough = FALSE
    /\ kittySupported = FALSE
    /\ session = "approval"
    /\ InitSession
    /\ message \in requests
    /\ config \in configs
    /\ isCIMode \in BOOLEAN
    /\ decision = Undecided
    /\ NoMessages
    /\ NoLoop

InitCommand == Request(MessagesOf({"command"}, CommandTexts), CommandConfigs)

InitTool == Request(MessagesOf({"tool"}, ToolTexts), ToolConfigs)

InitAsk == Request(MessagesOf({"followup", "api_req_failed", "unknown"}, {EmptyText}), AskConfigs)

InitApproval == InitCommand \/ InitTool \/ InitAsk

\* the caller asks for the decision on the request
Decide ==
    /\ decision = Undecided
    /\ decision' = getApprovalDecision(message, config, isCIMode)
    /\ UNCHANGED <<message, config, isCIMode, keyboard, completion, parseLoop>>

NextApproval == Decide

\* requests to execute a command
SpecCommand == InitCommand /\ [][NextApproval]_vars

\* requests to use a tool
SpecTool == InitTool /\ [][NextApproval]_vars

\* requests of every ask type
SpecApproval == InitApproval /\ [][NextApproval]_vars

(***************************************************************************)
(* Message completion at work: the UI holds a message list and splits it.  *)
(***************************************************************************)
InitSplit ==
    /\ usePassthrough = FALSE
    /\ kittySupported = FALSE
    /\ session = "messages"
    /\ InitSession
    /\ NoRequest
    /\ messages \in MessageLists
    /\ split = NotSplit
    /\ NoLoop

\* the UI renders: the list is split into its static and dynamic parts
Split ==
    /\ ~split.done
    /\ split' = [done |-> TRUE,
                 staticMessages |-> splitMessages(messages).staticMessages,
                 dynamicMessages |-> splitMessages(messages).dynamicMessages]
    /\ UNCHANGED <<messages, approval, keyboard, parseLoop>>

NextSplit == Split

\* message lists of up to MaxMessages messages
SpecSplit == InitSplit /\ [][NextSplit]_vars

(***************************************************************************)
(* The parse loop at work: handleKeypress has appended a sequence to the   *)
(* accumulator and runs the loop on the result.                            *)
(***************************************************************************)
MaxLoopUnits == 4

\* what the accumulated buffer is made of: valid, split and unparseable
\* sequences, and a plain letter
LoopUnits == {KITTY_RETURN, KITTY_PREFIX, KITTY_REST, KITTY_JUNK, <<"a">>}

RECURSIVE BuffersOf(_)
BuffersOf(n) ==
    IF n = 0 THEN {<<>>}
    ELSE BuffersOf(n - 1) \cup {b \o unit : b \in BuffersOf(n - 1), unit \in LoopUnits}

LoopBuffers == BuffersOf(MaxLoopUnits)

InitLoop ==
    /\ usePassthrough = FALSE
    /\ kittySupported = TRUE
    /\ session = "loop"
    /\ InitSession
    /\ NoRequest
    /\ NoMessages
    /\ parseLoop \in {KittyLoopStart(buffer) : buffer \in LoopBuffers}

\* the while condition is tested and, if it holds, the body runs once
LoopIterate ==
    /\ parseLoop.stage = "loop"
    /\ parseLoop' = KittyLoopStep(parseLoop)
    /\ UNCHANGED <<keyboard, approval, completion>>

\* control has left the loop: lines 393-410
LoopFinish ==
    /\ parseLoop.stage = "after"
    /\ parseLoop' = KittyLoopAfter(parseLoop)
    /\ UNCHANGED <<keyboard, approval, completion>>

NextLoop == LoopIterate \/ LoopFinish

\* accumulated buffers of up to MaxLoopUnits sequences
SpecLoop == InitLoop /\ [][NextLoop]_vars

(***************************************************************************)
(* The event log, seen from the claims.                                    *)
(***************************************************************************)
\* the keys of a sequence of logged events
Keys(es) == [k \in DOMAIN es |-> es[k].key]

\* the events the handler of unit i emitted while handling it
EventsOfUnit(i) == SelectSeq(events, LAMBDA e : e.at = i /\ e.by \in {"keypress", "data"})

\* the events emitted from the arrival of unit i to the arrival of the next
EventsAt(i) == SelectSeq(events, LAMBDA e : e.at = i)

\* the events that stand for unit i
EventsFor(i) == SelectSeq(events, LAMBDA e : e.src = i)

CtrlCKey == parseReadlineKey(<<ETX>>)

(***************************************************************************)
(* C1. A paste start marker followed at once by Ctrl+C: the Ctrl+C key     *)
(* event is delivered, no paste event is emitted for the capture, and      *)
(* paste capture is over (isPasteRef is false) once Ctrl+C is processed.   *)
(***************************************************************************)
C1_CtrlCCancelsPaste ==
    (Len(hist) = 2 /\ hist[1] = PASTE_MODE_PREFIX /\ hist[2] = <<ETX>>)
        => /\ Keys(EventsOfUnit(2)) = <<CtrlCKey>>
           /\ \A k \in DOMAIN events : ~events[k].key.paste
           /\ ~isPasteRef

(***************************************************************************)
(* C2. Paste capture and drag capture are never active together.           *)
(***************************************************************************)
C2_PasteDragExclusive == ~(isPasteRef /\ isDraggingRef)

(***************************************************************************)
(* C3. Events that stand for single input units are emitted in the order   *)
(* the units were received (the coalesced paste and drag events aside).    *)
(***************************************************************************)
C3_EventsInArrivalOrder ==
    \A j, k \in DOMAIN events :
        (j < k /\ events[j].src # 0 /\ events[k].src # 0)
            => events[j].src <= events[k].src

(***************************************************************************)
(* C4. A paste start marker, content in one or several units, then the     *)
(* end marker: exactly one event, a paste event whose text is the content  *)
(* in arrival order with every \r\n and every bare \r turned into \n, and   *)
(* paste capture is over.                                                  *)
(***************************************************************************)
RECURSIVE Concat(_)
Concat(ss) == IF ss = <<>> THEN <<>> ELSE Head(ss) \o Concat(Tail(ss))

\* line endings made \n, read off the text from left to right
RECURSIVE LineEndingsToLF(_)
LineEndingsToLF(s) ==
    IF s = <<>> THEN <<>>
    ELSE IF s[1] # CR THEN <<s[1]>> \o LineEndingsToLF(SliceFrom(s, 1))
    ELSE <<LF>> \o LineEndingsToLF(SliceFrom(s, IF Len(s) >= 2 /\ s[2] = LF THEN 2 ELSE 1))

PasteMarkers == {PASTE_MODE_PREFIX, PASTE_MODE_SUFFIX, PASTE_CHUNK}

\* the session received exactly: start marker, content units, end marker
IsPasteFeed ==
    /\ Len(hist) >= 3
    /\ hist[1] = PASTE_MODE_PREFIX
    /\ hist[Len(hist)] = PASTE_MODE_SUFFIX
    /\ \A i \in 2..(Len(hist) - 1) : hist[i] \notin PasteMarkers

\* C4: a bracketed paste gives exactly one paste event, its text normalized
C4_PasteYieldsOneNormalizedEvent ==
    /\ IsPasteFeed =>
          /\ Keys(events) = <<createPasteKey(
                                LineEndingsToLF(Concat(SubSeq(hist, 2, Len(hist) - 1))))>>
          /\ ~isPasteRef
    /\ hist = <<PASTE_CHUNK>> =>
          /\ Keys(events) = <<createPasteKey(<<"a", LF, LF>>)>>
          /\ ~isPasteRef

(***************************************************************************)
(* C5. From an idle decoder each Shift+Enter encoding - the unit ESC CR,   *)
(* the unit ESC LF, and a backslash unit followed by a Return unit before  *)
(* the backslash timer fires - gives exactly one event, a return with      *)
(* shift, and no backslash event.                                          *)
(***************************************************************************)
ShiftReturn(seq) == Key("return", seq, FALSE, FALSE, TRUE, FALSE)

\* unit i is a backslash that found the decoder idle and unit i + 1 is a
\* Return that arrived before the timer of unit i fired
BackslashThenReturn(i) ==
    /\ i + 1 \in DOMAIN hist
    /\ ctx[i].idle
    /\ hist[i] = BACKSLASH
    /\ hist[i + 1] = <<CR>>
    /\ \A k \in DOMAIN fired : fired[k].src # i

\* C5: each Shift+Enter encoding gives exactly one return event with shift
C5_ShiftEnterEncodings ==
    \A i \in DOMAIN hist :
        /\ (ctx[i].idle /\ hist[i] \in {<<ESC, CR>>, <<ESC, LF>>})
              => Keys(EventsAt(i)) = <<ShiftReturn(hist[i])>>
        /\ BackslashThenReturn(i)
              => /\ EventsAt(i) = <<>>
                 /\ Keys(EventsAt(i + 1)) = <<ShiftReturn(<<CR>>)>>

C5_Witness ==
    /\ \E i \in DOMAIN hist : BackslashThenReturn(i) /\ Len(EventsAt(i + 1)) = 1
    /\ \E i \in DOMAIN hist : ctx[i].idle /\ hist[i] = <<ESC, CR>> /\ EventsAt(i) # <<>>
    /\ \E i \in DOMAIN hist : ctx[i].idle /\ hist[i] = <<ESC, LF>> /\ EventsAt(i) # <<>>

(***************************************************************************)
(* C6. A lone backslash received by an idle decoder, with no unit before   *)
(* its timer fires: the firing emits exactly one event, the literal        *)
(* backslash; no Return event is emitted and no backslash is held any      *)
(* more.                                                                   *)
(***************************************************************************)
\* the k-th timer callback run is that of a backslash unit which found the
\* decoder idle and was followed by no unit
LoneBackslashFired(k) ==
    /\ fired[k].kind = "backslash"
    /\ ctx[fired[k].src].idle
    /\ fired[k].at = fired[k].src

\* C6: the timer of a lone backslash emits exactly the literal backslash
C6_LoneBackslashTimeout ==
    \A k \in DOMAIN fired :
        LoneBackslashFired(k)
            => /\ Keys(EventsAt(fired[k].src)) = <<createSpecialKey("", BACKSLASH)>>
               /\ \A e \in DOMAIN events :
                      events[e].at = fired[k].src => events[e].by = "timer"
               /\ Len(hist) = fired[k].src => ~waitingForEnterRef

C6_Witness ==
    \E k \in DOMAIN fired :
        LoneBackslashFired(k) /\ Len(hist) = fired[k].src /\ Len(events) = 1

(***************************************************************************)
(* C7. With the extended protocol enabled, a valid sequence split over two *)
(* deliveries: no event on the first delivery, exactly one on the second,  *)
(* the event of the unsplit sequence.                                      *)
(***************************************************************************)
C7_SplitKittySequence ==
    \A i \in DOMAIN hist :
        (/\ i + 1 \in DOMAIN hist
         /\ ctx[i].idle /\ ctx[i].kitty /\ ctx[i + 1].kitty
         /\ hist[i] = KITTY_PREFIX /\ hist[i + 1] = KITTY_REST)
            => /\ EventsAt(i) = <<>>
               /\ Keys(EventsOfUnit(i + 1))
                      = <<parseKittySequence(KITTY_PREFIX \o KITTY_REST).key>>

(***************************************************************************)
(* C8. An accumulator that unparseable ESC-prefixed units have filled      *)
(* beyond MAX_KITTY_SEQUENCE_LENGTH is eventually reset to empty, and a    *)
(* valid extended sequence received afterwards gives exactly one event,    *)
(* the key it encodes.                                                     *)
(***************************************************************************)
\* unit i is a whole valid sequence received with the protocol enabled
ValidKittyUnit(i) == ctx[i].kitty /\ hist[i] = KITTY_RETURN

\* every whole valid sequence gives exactly one event, emitted on arrival
C8_ValidSequenceParsed ==
    \A i \in DOMAIN hist :
        ValidKittyUnit(i)
            => /\ Keys(EventsFor(i)) = <<Key("return", KITTY_RETURN, FALSE, FALSE, FALSE, FALSE)>>
               /\ \A k \in DOMAIN events : events[k].src = i => events[k].at = i

\* C8: an overflowing accumulator is eventually emptied and valid sequences
\* are parsed
C8_OverflowRecovered ==
    /\ Overflowing ~> (kittySequenceBufferAtom = <<>>)
    /\ []C8_ValidSequenceParsed

C8_Witness ==
    \E i, j \in DOMAIN hist :
        /\ i < j /\ ctx[i].over /\ ~ctx[j].over /\ ValidKittyUnit(j)
        /\ Len(EventsFor(j)) = 1
        /\ kittySequenceBufferAtom = <<>>

(***************************************************************************)
(* C9. The extended-sequence accumulator never holds more than             *)
(* MAX_KITTY_SEQUENCE_LENGTH characters.                                   *)
(***************************************************************************)
C9_KittyBufferBounded == Len(kittySequenceBufferAtom) <= MAX_KITTY_SEQUENCE_LENGTH

(***************************************************************************)
(* C10. At most one backslash timer and at most one drag timer is pending, *)
(* and a timer callback runs only to resolve the pending state it was      *)
(* started for.                                                            *)
(***************************************************************************)
Pending(kind) == {i \in DOMAIN timers : timers[i].kind = kind}

\* C10: at most one pending timer of each kind and no stale callback
C10_NoStaleTimer ==
    /\ Cardinality(Pending("backslash")) <= 1
    /\ Cardinality(Pending("drag")) <= 1
    /\ \A k \in DOMAIN fired :
          /\ fired[k].kind = "backslash" => fired[k].waiting /\ fired[k].held = fired[k].src
          /\ fired[k].kind = "drag" => fired[k].dragging

(***************************************************************************)
(* C11. Ctrl+C received while a drag capture is active with its timer      *)
(* pending: the Ctrl+C key event is emitted, the drag capture is over, its *)
(* accumulator is empty and its timer is cancelled; no paste event with    *)
(* the partial drag content is emitted.                                    *)
(***************************************************************************)
\* the step receives the unit seq
Receives(seq) == Len(hist') = Len(hist) + 1 /\ hist'[Len(hist')] = seq

C11_CtrlCCancelsDrag ==
    [][(Receives(<<ETX>>) /\ isDraggingRef /\ Pending("drag") # {})
          => /\ Keys(events') = Append(Keys(events), CtrlCKey)
             /\ ~isDraggingRef'
             /\ dragBufferAtom' = <<>>
             /\ Pending("drag")' = {}]_vars

(***************************************************************************)
(* C12. Stopping the session while a paste capture or a drag capture holds *)
(* a non-empty accumulator emits the accumulated content as a paste event  *)
(* (paste content normalized): the content is not dropped.                 *)
(***************************************************************************)
\* the keys of the events the step emits
NewKeys == SubSeq(Keys(events'), Len(events) + 1, Len(events'))

\* the step emits the key
Emits(key) == \E k \in DOMAIN NewKeys : NewKeys[k] = key

\* C12: stop flushes a non-empty paste or drag accumulator as a paste event
C12_StopFlushesCaptures ==
    [][(mounted /\ ~mounted')
          => /\ (isPasteRef /\ pasteBufferRef # <<>>)
                   => Emits(createPasteKey(LineEndingsToLF(pasteBufferRef)))
             /\ (isDraggingRef /\ dragBufferAtom # <<>>)
                   => Emits(createPasteKey(dragBufferAtom))]_vars

(***************************************************************************)
(* C13. Once stop has run the terminal is restored, whatever the order of  *)
(* stop and the completion of the protocol detection: bracketed-paste      *)
(* reporting is off, the extended protocol is off, and raw mode is what it *)
(* was before the start (off).                                             *)
(***************************************************************************)
C13_TerminalRestoredAfterStop ==
    ~mounted => (~bracketedPaste /\ ~kittyMode /\ ~rawMode)

(***************************************************************************)
(* C14. The raw-interception path and the decoded-keypress path treat a    *)
(* paste alike: from the same state, a marker or a content unit leaves the *)
(* same paste events, the same isPasteRef and the same paste accumulator   *)
(* on both paths.                                                          *)
(***************************************************************************)
\* what a path leaves of a paste: the paste events and the capture state
PasteView(s) ==
    [events |-> SelectSeq(Keys(s.events), LAMBDA k : k.paste),
     isPasteRef |-> s.isPasteRef, pasteBufferRef |-> s.pasteBufferRef,
     pasteBufferAtom |-> s.pasteBufferAtom]

\* the unit handled by stdin's data listener in raw-interception mode
RawPath(unit) ==
    handleRawData([Enter("data", Len(hist) + 1) EXCEPT !.usePassthrough = TRUE], unit)

\* the unit handled by the keypress listener in decoded-keypress mode
KeypressPath(unit) ==
    handleKeypress([Enter("keypress", Len(hist) + 1) EXCEPT !.usePassthrough = FALSE],
                   parseReadlineKey(unit))

\* C14: both paths give the same paste events and paste state
C14_PastePathsAgree ==
    \A unit \in FocusUnits :
        mounted => PasteView(RawPath(unit)) = PasteView(KeypressPath(unit))

(***************************************************************************)
(* C15. The one protocol detection of a session is the one started at its  *)
(* start: no later step starts a detection, so kittyProtocolEnabledAtom is *)
(* written once, when that detection completes.                            *)
(***************************************************************************)
C15_DetectionRunsOnce == [][detecting' <= detecting]_vars

(***************************************************************************)
(* C16. The events a fresh decoder emits for a sequence of units do not    *)
(* depend on when the timers fire: once nothing is pending they are the    *)
(* events of a fresh decoder that got the same units with every timer      *)
(* firing before the next unit arrived.                                    *)
(***************************************************************************)
\* a decoder as it is after the start of a session in the same mode
Fresh ==
    [isPasteRef |-> FALSE, pasteBufferRef |-> <<>>, isDraggingRef |-> FALSE,
     dragTimerRef |-> 0, backslashTimerRef |-> 0, waitingForEnterRef |-> FALSE,
     pasteBufferAtom |-> <<>>, dragBufferAtom |-> <<>>,
     kittySequenceBufferAtom |-> <<>>, kittyProtocolEnabledAtom |-> FALSE,
     detecting |-> 1, rawMode |-> TRUE, bracketedPaste |-> TRUE, kittyMode |-> FALSE,
     timers |-> <<>>, timerSeq |-> 0, events |-> <<>>, waitingSrc |-> 0,
     usePassthrough |-> usePassthrough, cur |-> 0, by |-> "none"]

\* the listener of the session's mode handles the unit
Feed(s, unit) ==
    IF s.usePassthrough THEN handleRawData(s, unit)
    ELSE handleKeypress(s, parseReadlineKey(unit))

\* every pending timer fires, the oldest first
RECURSIVE FireAll(_)
FireAll(s) ==
    IF s.timers = <<>> THEN s
    ELSE LET t == Head(s.timers)
             s1 == [s EXCEPT !.timers = Tail(@)]
         IN FireAll(IF t.kind = "backslash" THEN BackslashTimeout(s1, t)
                    ELSE DragTimeout(s1, t))

\* the units arrive one by one, each after the timers of the one before
RECURSIVE SlowTyping(_, _)
SlowTyping(s, units) ==
    IF units = <<>> THEN s
    ELSE SlowTyping(FireAll(Feed([s EXCEPT !.cur = @ + 1], Head(units))), Tail(units))

\* nothing of the input is held back any more
Settled == mounted /\ timers = <<>> /\ ~waitingForEnterRef /\ ~isDraggingRef /\ ~isPasteRef

\* C16: the events do not depend on the timing of the timers
C16_EventsIndependentOfTimers ==
    Settled => Keys(events) = Keys(SlowTyping(Fresh, hist).events)

(***************************************************************************)
(* C17. For an ask message of type command, neither partial nor answered,  *)
(* getApprovalDecision returns auto-approve exactly when execute.enabled   *)
(* is true, the command matches no denied pattern and matches a pattern of *)
(* the allowed list; a denied match wins over every allowed match.         *)
(***************************************************************************)
\* the request is an ask of the given type that is to be processed
Asks(ask) ==
    /\ message.type = "ask" /\ message.ask = ask
    /\ ~message.partial /\ ~message.isAnswered

\* the pattern is "*", the command itself or a prefix of the command
MatchesPattern(command, pattern) ==
    \/ pattern = <<"*">>
    \/ pattern = command
    \/ Len(pattern) <= Len(command) /\ SubSeq(command, 1, Len(pattern)) = pattern

MatchesSome(command, patterns) ==
    \E i \in DOMAIN patterns : MatchesPattern(command, patterns[i])

\* C17: a command is auto-approved iff enabled, not denied and allowed
C17_CommandApprovedIffAllowed ==
    (decision # Undecided /\ Asks("command"))
        => (decision.action = "auto-approve"
              <=> /\ config.execute.enabled
                  /\ ~MatchesSome(ParseCommand(message), config.execute.denied)
                  /\ MatchesSome(ParseCommand(message), config.execute.allowed))

C17_Witness ==
    /\ Asks("command") /\ decision.action = "auto-approve"
    /\ config.execute.denied # <<>>
    /\ message.text = CommandText(<<"n", "p">>)

(***************************************************************************)
(* C18. In CI mode the decision on an ask message, neither partial nor     *)
(* answered, is never manual, and every auto-reject carries the message    *)
(* CI_MODE_MESSAGES.AUTO_REJECTED; outside CI mode the decision is never   *)
(* auto-reject.                                                            *)
(***************************************************************************)
\* the request is an ask message that is to be processed
Processed == message.type = "ask" /\ ~message.partial /\ ~message.isAnswered

\* C18: CI mode never decides manual, other modes never auto-reject
C18_CIModeNeverManual ==
    (decision # Undecided /\ Processed)
        => /\ isCIMode => decision.action \in {"auto-approve", "auto-reject"}
           /\ decision.action = "auto-reject"
                 => decision.hasMessage /\ decision.message = CI_MODE_AUTO_REJECTED
           /\ ~isCIMode => decision.action # "auto-reject"

C18_Witness ==
    /\ Processed /\ isCIMode /\ decision.action = "auto-reject"
    /\ message.ask = "unknown"

(***************************************************************************)
(* C19. A read or write tool request outside the workspace is auto-        *)
(* approved only if the outside flag of its kind (read.outside,            *)
(* write.outside) is enabled, whatever the other flags are.                *)
(***************************************************************************)
\* the request is a tool request of one of the tools, outside the workspace
OutsideRequest(tools) ==
    /\ Asks("tool")
    /\ message.text.form = "object"
    /\ message.text.tool \in tools
    /\ message.text.isOutsideWorkspace

\* C19: outside the workspace only the outside flag approves
C19_OutsideNeedsOutsideFlag ==
    decision.action = "auto-approve"
        => /\ OutsideRequest(ReadTools) => config.read.outside
           /\ OutsideRequest(WriteTools) => config.write.outside

LastWas(seq) == hist # <<>> /\ hist[Len(hist)] = seq

\* C21: after an end marker no paste capture is active and the next unit
\* does not go into the paste accumulator
C21_EndMarkerExitsPaste ==
    [][/\ Receives(PASTE_MODE_SUFFIX) => ~isPasteRef'
       /\ (LastWas(PASTE_MODE_SUFFIX) /\ \E unit \in {<<CR>>, <<LF>>} : Receives(unit))
             => (pasteBufferRef' = <<>> /\ pasteBufferAtom' = <<>>)]_vars

(***************************************************************************)
(* C22. When a backslash is held and the next unit is an ESC-prefixed      *)
(* sequence of the extended protocol (the protocol being enabled), the     *)
(* backslash timer is cancelled and the held backslash is emitted as a     *)
(* literal key first: every event of the extended sequence comes after the *)
(* backslash event.                                                        *)
(***************************************************************************)
\* the ESC-prefixed units of the extended protocol
ExtendedUnits == {KITTY_RETURN, KITTY_PREFIX, KITTY_JUNK}

BackslashKey == createSpecialKey("", BACKSLASH)

\* C22: an extended sequence that finds a held backslash cancels the timer
\* and emits the backslash before anything else
C22_BackslashBeforeExtended ==
    [][\A unit \in ExtendedUnits :
          (Receives(unit) /\ waitingForEnterRef /\ effect.isKittyEnabled)
             => /\ ~waitingForEnterRef'
                /\ backslashTimerRef' = 0
                /\ \A i \in DOMAIN timers' : timers'[i].id # backslashTimerRef
                /\ NewKeys # <<>>
                /\ NewKeys[1] = BackslashKey
                /\ \A k \in 2..Len(NewKeys) : NewKeys[k] # BackslashKey]_vars

\* a held backslash, with its timer pending, has met an extended sequence
C22_Witness ==
    \E i \in DOMAIN hist :
        /\ i > 1
        /\ hist[i] \in ExtendedUnits
        /\ hist[i - 1] = BACKSLASH
        /\ ctx[i].kitty
        /\ \E k \in DOMAIN events :
              /\ k < Len(events)
              /\ events[k].key = BackslashKey /\ events[k].at = i /\ events[k].src = i - 1
              /\ events[k + 1].at = i /\ events[k + 1].src = i
        /\ \A k \in DOMAIN fired : fired[k].at >= i

(***************************************************************************)
(* C23. When the accumulator of the extended protocol has overflowed and   *)
(* is discarded, no event is emitted for the discarded content: the unit   *)
(* whose arrival triggers the overflow check produces no key event either. *)
(***************************************************************************)
\* the events the step emits
NewEvents == SubSeq(events', Len(events) + 1, Len(events'))

\* the step receives an ESC-prefixed unit that does not parse, the handler
\* finds the accumulator (as its render saw it) over the maximum and
\* discards it
DiscardsOverflow ==
    /\ \E unit \in {KITTY_PREFIX, KITTY_JUNK} : Receives(unit)
    /\ effect.isKittyEnabled
    /\ Len(effect.kittyBuffer) > MAX_KITTY_SEQUENCE_LENGTH
    /\ kittySequenceBufferAtom' = <<>>

\* C23: the step that discards the overflowed accumulator emits no event
\* for the unit it received
C23_OverflowEmitsNothing ==
    [][DiscardsOverflow
          => \A k \in DOMAIN NewEvents : NewEvents[k].src # Len(hist')]_vars

(***************************************************************************)
(* C24. While a paste capture is active no paste event is emitted and      *)
(* isPasteRef stays true until a paste end marker is received or the       *)
(* session is stopped: appending content to the paste accumulator does not *)
(* run the clean-up that flushes the partial accumulator.                  *)
(***************************************************************************)
\* the step receives a unit that holds a paste end marker
ReceivesEndMarker == Receives(PASTE_MODE_SUFFIX) \/ Receives(PASTE_CHUNK)

\* C24: a step other than an end marker or stop leaves the paste capture
\* active and emits no paste event
C24_PasteOpenUntilEndMarker ==
    [][(isPasteRef /\ mounted' /\ ~ReceivesEndMarker)
          => /\ isPasteRef'
             /\ \A k \in DOMAIN NewKeys : ~NewKeys[k].paste]_vars

(***************************************************************************)
(* C25. Every lone backslash the decoder accepts is accounted for by       *)
(* exactly one emitted event, the literal backslash or the return with     *)
(* shift that resolves it, whatever follows: the timer firing, a Return,   *)
(* another unit, or the stop of the session while the backslash is held.   *)
(* Stated on the states in which nothing is left to happen for a held      *)
(* backslash: no timer is pending, and the session has stopped or no       *)
(* backslash is held.                                                      *)
(***************************************************************************)
\* the backslash unit a Return received as unit j resolves: the last one
\* before it (0: none)
RECURSIVE LastBackslashBefore(_)
LastBackslashBefore(j) ==
    IF j <= 1 THEN 0
    ELSE IF hist[j - 1] = BACKSLASH THEN j - 1
    ELSE LastBackslashBefore(j - 1)

\* the events that account for the backslash received as unit i
AccountsFor(i) ==
    {k \in DOMAIN events :
        \/ events[k].key = BackslashKey /\ events[k].src = i
        \/ /\ events[k].key = ShiftReturn(<<CR>>)
           /\ events[k].src \in DOMAIN hist
           /\ LastBackslashBefore(events[k].src) = i}

\* nothing is pending for a held backslash
BackslashSettled == timers = <<>> /\ (~mounted \/ ~waitingForEnterRef)

\* C25: once settled, each backslash unit has exactly one event
C25_BackslashAccountedOnce ==
    BackslashSettled
        => \A i \in DOMAIN hist : hist[i] = BACKSLASH => Cardinality(AccountsFor(i)) = 1

(***************************************************************************)
(* C26. Once a drag-start unit is received every following unit is         *)
(* appended to the drag accumulator and emits nothing; when the completion *)
(* timer of the last unit fires, exactly one paste-type event is emitted,  *)
(* its content the drag fragments in arrival order, isDraggingRef becomes  *)
(* false and the timer handle is cleared. Stated for a drag that starts    *)
(* with the first unit of the session, before any timer has fired: its     *)
(* fragments are all the units received.                                   *)
(***************************************************************************)
\* the step runs the drag timer set by the last unit received
DragTimerFires ==
    /\ Len(fired') = Len(fired) + 1
    /\ fired'[Len(fired')].kind = "drag"
    /\ fired'[Len(fired')].src = Len(hist)

\* the session began with a drag start and no timer has fired yet
DragFromStart == hist # <<>> /\ hist[1] = <<QUOTE>> /\ fired = <<>>

\* C26: fragments are accumulated silently and the timeout emits them as one
\* paste event
C26_DragCompletesOnTimeout ==
    [][/\ (DragFromStart /\ isDraggingRef /\ \E unit \in TimerUnits : Receives(unit))
             => /\ NewKeys = <<>>
                /\ dragBufferAtom' = dragBufferAtom \o hist'[Len(hist')]
       /\ (DragFromStart /\ DragTimerFires)
             => /\ NewKeys = <<createPasteKey(Concat(hist))>>
                /\ ~isDraggingRef'
                /\ dragTimerRef' = 0]_vars

(***************************************************************************)
(* C27. After stop has completed no backslash or drag timer remains        *)
(* pending and no event is emitted any more, whatever the state of the     *)
(* decoder and whatever timers were started before stop.                   *)
(***************************************************************************)
\* C27: a stopped session has no pending timer and its event log is final
C27_QuietAfterStop ==
    [][~mounted'
          => /\ Pending("backslash")' = {}
             /\ Pending("drag")' = {}
             /\ ~mounted => events' = events]_vars

(***************************************************************************)
(* C28. The loop that parses the accumulated buffer terminates for every   *)
(* buffer (the parser consumes at least one character with every key it    *)
(* returns): an iteration that stays in the loop leaves a shorter buffer.  *)
(* Every complete sequence of the buffer is emitted, in buffer order, and  *)
(* the unparsed remainder is what the accumulator keeps.                   *)
(***************************************************************************)
\* the positions (0-based) of the buffer at which a complete sequence starts
CompleteAt(buffer) ==
    {q \in 0..(Len(buffer) - 1) : parseKittySequence(SliceFrom(buffer, q)).ok}

\* what a finished run l has to show
LoopResult(l) ==
    /\ Len(l.keys) = Len(l.offsets)
    /\ {l.offsets[k] : k \in DOMAIN l.offsets} = CompleteAt(l.input)
    /\ \A k \in DOMAIN l.offsets :
          /\ l.keys[k] = parseKittySequence(SliceFrom(l.input, l.offsets[k])).key
          /\ k > 1 => l.offsets[k - 1] + Len(l.keys[k - 1].sequence) <= l.offsets[k]
    /\ l.buffer = SliceFrom(l.input, Len(l.input) - Len(l.buffer))
    /\ l.keys # <<>>
          => /\ l.offsets[Len(l.offsets)] + Len(l.keys[Len(l.keys)].sequence)
                   <= Len(l.input) - Len(l.buffer)
             /\ l.accumulator = l.buffer
    /\ l.keys = <<>> => l.accumulator = l.input
    /\ KittyLoop(l.input, <<>>) = [buffer |-> l.buffer, keys |-> l.keys]

C29_FocusLeavesDecoderUnchanged ==
    [][(\E unit \in {FOCUS_IN, FOCUS_OUT} : Receives(unit))
          => /\ events' = events
             /\ UNCHANGED <<isPasteRef, pasteBufferRef, pasteBufferAtom,
                            isDraggingRef, dragBufferAtom, kittySequenceBufferAtom,
                            waitingForEnterRef, backslashTimerRef, dragTimerRef,
                            timers>>]_vars

(***************************************************************************)
(* C30. An ask message of the extension is complete only when isAnswered   *)
(* is true: a non-partial ask message that is still unanswered is not      *)
(* complete, and does not move to the static section.                      *)
(***************************************************************************)
\* msg is an ask message of the extension
IsExtensionAsk(msg) == msg.source = "extension" /\ msg.message.type = "ask"

\* C30: the split puts no unanswered ask message in the static section
C30_AskCompleteOnlyWhenAnswered ==
    split.done
        => \A k \in DOMAIN split.staticMessages :
              LET msg == split.staticMessages[k]
              IN IsExtensionAsk(msg)
                    => (isMessageComplete(msg) /\ msg.message.isAnswered = TRUE)

====
